---- MODULE Spec2Model ----
(***************************************************************************)
(* Model of the practice-scheduling engine of yu-practice-game             *)
(* (src/src/game.rs) and of the session loop that drives it                *)
(* (src/src/main.rs, run_app).                                             *)
(*                                                                         *)
(* Strings are sequences of one-character strings.  Catalog indices are    *)
(* 0-based as in the source; radicals[i + 1] is the radical at index i.    *)
(* An Option is a sequence: <<>> is None, <<x>> is Some(x).                *)
(***************************************************************************)
EXTENDS Integers, Sequences, FiniteSets, TLC

VARIABLES
    radicals,            \* GameState.radicals
    current_radical,     \* GameState.current_radical (0-based index)
    remaining_practice,  \* GameState.remaining_practice: text -> count
    correct_count,       \* GameState.correct_count
    wrong_count,         \* GameState.wrong_count
    total_practice,      \* GameState.total_practice
    last_error,          \* GameState.last_error: Option of a message
    recent_radicals,     \* GameState.recent_radicals, newest first
    last_big_code,       \* GameState.last_big_code: Option of a string
    config,              \* the GameConfig handed to every call
    input_buffer,        \* run_app's input_buffer
    pc,                  \* run_app: "await" a key, "complete" or "quit"
    last_op,             \* the GameState operation that ran last
    input,               \* its input argument, <<>> when it takes none
    ret,                 \* what it returned
    drawn,               \* what the last next_radical call drew, when recorded
    disk,                \* the files: the two tables and save.json
    menu,                \* show_settings_menu: selected_item, the fields of
                         \* its config that the game logic does not read,
                         \* and the path being typed
    tally                \* for each text, the correct and the wrong answers
                         \* given while its radical was shown, when counted

vars == <<radicals, current_radical, remaining_practice, correct_count,
          wrong_count, total_practice, last_error, recent_radicals,
          last_big_code, config, input_buffer, pc, last_op, input, ret,
          drawn, disk, menu, tally>>

\* the fields of GameState
state_vars == <<radicals, current_radical, remaining_practice, correct_count,
                wrong_count, total_practice, last_error, recent_radicals,
                last_big_code>>

----------------------------------------------------------------------------
\* Bounds of the model.

\* most practice attempts recorded in one behaviour of Spec
MaxPractice == 3

\* most practice attempts recorded in one behaviour of SpecLoop
MaxLoopPractice == 4

\* most practice attempts recorded in one behaviour of SpecDrawn
MaxDrawnPractice == 2

\* most practice attempts recorded in one behaviour of SpecSave
MaxSavePractice == 2

----------------------------------------------------------------------------
\* Characters and strings.

\* char::is_whitespace, on the characters of the model
IsWhitespace(c) == c = " "

\* char::to_lowercase, on the characters of the model
ToLowerChar(c) ==
    CASE c = "A" -> "a"
      [] c = "B" -> "b"
      [] c = "S" -> "s"
      [] OTHER -> c

\* char::to_uppercase, on the characters of the model
ToUpperChar(c) ==
    CASE c = "a" -> "A"
      [] c = "b" -> "B"
      [] c = "s" -> "S"
      [] OTHER -> c

\* str::to_lowercase
to_lowercase(s) == [i \in 1..Len(s) |-> ToLowerChar(s[i])]

\* str::to_uppercase
to_uppercase(s) == [i \in 1..Len(s) |-> ToUpperChar(s[i])]

\* str::trim: drop the leading and the trailing whitespace
trim(s) ==
    LET keep == {i \in 1..Len(s) : ~IsWhitespace(s[i])}
    IN  IF keep = {} THEN <<>>
        ELSE LET lo == CHOOSE i \in keep : \A j \in keep : i <= j
                 hi == CHOOSE i \in keep : \A j \in keep : j <= i
             IN  SubSeq(s, lo, hi)

\* the code point of a character (the order String::cmp compares by)
CodePoint(c) ==
    CASE c = " " -> 32
      [] c = ";" -> 59
      [] c = "A" -> 65
      [] c = "B" -> 66
      [] c = "S" -> 83
      [] c = "a" -> 97
      [] c = "b" -> 98
      [] c = "s" -> 115

\* a.cmp(b) = Less on strings: lexicographic by code point
StrLess(a, b) ==
    \E i \in 1..Len(b) :
        /\ \A j \in 1..(i - 1) : j <= Len(a) /\ a[j] = b[j]
        /\ \/ i = Len(a) + 1
           \/ i <= Len(a) /\ CodePoint(a[i]) < CodePoint(b[i])

\* keyboard_order of GameState::new
keyboard_order ==
    <<"a", "s", "d", "f", "g", "h", "j", "k", "l", "q", "w", "e", "r",
      "t", "y", "u", "i", "o", "p", "z", "x", "c", "v", "b", "n", "m">>

\* usize::MAX, as far as the keyboard sort needs it: past every position
UsizeMax == 99

\* keyboard_order.find(first char lowercased).unwrap_or(usize::MAX); the
\* first char of an empty code is char::default(), which is not on the keyboard
KeyboardPos(code) ==
    IF code = <<>> THEN UsizeMax
    ELSE LET c == ToLowerChar(code[1])
             at == {i \in 1..Len(keyboard_order) : keyboard_order[i] = c}
         IN  IF at = {} THEN UsizeMax
             ELSE (CHOOSE i \in at : \A j \in at : i <= j) - 1

\* slice::sort_by is a stable sort: lt[i][j] says element i sorts strictly
\* before element j; the result lists the elements by (key, input position)
StableSort(s, lt) ==
    LET n == Len(s)
        before(i) == {j \in 1..n : lt[j][i] \/ (~lt[i][j] /\ j < i)}
    IN  [p \in 1..n |-> s[CHOOSE i \in 1..n : Cardinality(before(i)) = p - 1]]

\* slice::shuffle: every permutation of the sequence is a possible outcome
Shuffles(s) ==
    LET n == Len(s)
    IN  {[i \in 1..n |-> s[f[i]]] :
            f \in {g \in [1..n -> 1..n] : \A a, b \in 1..n : a # b => g[a] # g[b]}}

----------------------------------------------------------------------------
\* Radical and GameConfig.

\* the Radical that load_code_data builds from a code and a text, with the
\* frequency that load_from_files merges in
Radical(code, text, frequency) ==
    [code |-> code,
     text |-> text,
     frequency |-> frequency,
     big_code |-> SubSeq(code, 1, 1),
     small_code |-> IF Len(code) > 1 THEN SubSeq(code, 2, Len(code)) ELSE <<>>]

PracticeModes == {"BigCode", "DualCode"}

PracticeOrders == {"Alphabetical", "Frequency", "Keyboard", "Random"}

\* a GameConfig, as far as the engine reads it
GameConfig(penalty, min_practice_count, practice_mode, order) ==
    [penalty |-> penalty,
     min_practice_count |-> min_practice_count,
     practice_mode |-> practice_mode,
     order |-> order]

\* the configurations of the model: the defaults of show_settings_menu, and
\* one more for each other order
GameConfigs ==
    { GameConfig(4, 2, "DualCode", "Random"),
      GameConfig(1, 1, "BigCode", "Alphabetical"),
      GameConfig(2, 1, "DualCode", "Frequency"),
      GameConfig(1, 2, "BigCode", "Keyboard") }

\* the catalogs handed to GameState::new: what the loader can produce (radicals
\* that share a text share its frequency; a code keeps the case of its file)
Catalogs ==
    { <<>>,
      << Radical(<<"B">>, "t1", 0) >>,
      << Radical(<<"s", "a">>, "t1", 5), Radical(<<"a", "b">>, "t2", 10) >>,
      << Radical(<<"a", "b">>, "t1", 3), Radical(<<"b">>, "t1", 3) >> }

\* the catalogs of the session loop: one more, of three radicals whose
\* frequency order is not their code order
LoopCatalogs ==
    Catalogs \cup
    { << Radical(<<"s">>, "t1", 5), Radical(<<"s", "a">>, "t2", 5),
         Radical(<<"a", "b">>, "t3", 10) >> }

\* what the learner can type
Inputs ==
    { <<>>, <<" ">>, <<"a">>, <<"b">>, <<"a", "b">>, <<" ", "A", "B", " ">>,
      <<"S", "a">>, <<"s">> }

----------------------------------------------------------------------------
\* GameState::new.

\* SortAlphabetical that compares the big codes only
SortAlphabeticalByBigCode(rs) ==
    StableSort(rs, [i \in 1..Len(rs) |-> [j \in 1..Len(rs) |->
        StrLess(rs[i].big_code, rs[j].big_code)]])

\* SortFrequency that leaves the catalog in the order of its file
SortFrequencyAsLoaded(rs) == rs

\* SortFrequency in ascending order
SortFrequencyAscending(rs) ==
    StableSort(rs, [i \in 1..Len(rs) |-> [j \in 1..Len(rs) |->
        rs[i].frequency < rs[j].frequency]])

\* SortKeyboard that leaves radicals of the same first character as they come
SortKeyboardFirstOnly(rs) ==
    StableSort(rs, [i \in 1..Len(rs) |-> [j \in 1..Len(rs) |->
        KeyboardPos(rs[i].code) < KeyboardPos(rs[j].code)]])

\* radicals.sort_by(|a, b| a.code.cmp(&b.code))
SortAlphabetical(rs) ==
    StableSort(rs, [i \in 1..Len(rs) |-> [j \in 1..Len(rs) |->
        StrLess(rs[i].code, rs[j].code)]])

\* radicals.sort_by(|a, b| b.frequency.cmp(&a.frequency))
SortFrequency(rs) ==
    StableSort(rs, [i \in 1..Len(rs) |-> [j \in 1..Len(rs) |->
        rs[i].frequency > rs[j].frequency]])

\* the keyboard comparison: first-character position, then the whole code
SortKeyboard(rs) ==
    StableSort(rs, [i \in 1..Len(rs) |-> [j \in 1..Len(rs) |->
        IF KeyboardPos(rs[i].code) # KeyboardPos(rs[j].code)
        THEN KeyboardPos(rs[i].code) < KeyboardPos(rs[j].code)
        ELSE StrLess(rs[i].code, rs[j].code)]])

\* the orders of the catalog that the match on config.order can produce
Ordered(rs, order) ==
    CASE order = "Alphabetical" -> {SortAlphabetical(rs)}
      [] order = "Frequency" -> {SortFrequency(rs)}
      [] order = "Keyboard" -> {SortKeyboard(rs)}
      [] order = "Random" -> Shuffles(rs)

\* InitialPractice with the default minimum in place of the configured one
InitialPracticeDefault(rs, cfg) ==
    [t \in {rs[i].text : i \in 1..Len(rs)} |-> 2]

\* one entry per text, each the configured minimum (a later insert of the
\* same text overwrites the earlier one with the same value)
InitialPractice(rs, cfg) ==
    [t \in {rs[i].text : i \in 1..Len(rs)} |-> cfg.min_practice_count]

\* the states GameState::new(radicals, config) can return
new(rs, cfg) ==
    {[radicals |-> sorted,
      current_radical |-> 0,
      remaining_practice |-> InitialPractice(sorted, cfg),
      correct_count |-> 0,
      wrong_count |-> 0,
      total_practice |-> 0,
      last_error |-> <<>>,
      recent_radicals |-> <<>>,
      last_big_code |-> <<>>] : sorted \in Ordered(rs, cfg.order)}

----------------------------------------------------------------------------
\* Reading the state.

\* the GameState as one value
Self ==
    [radicals |-> radicals,
     current_radical |-> current_radical,
     remaining_practice |-> remaining_practice,
     correct_count |-> correct_count,
     wrong_count |-> wrong_count,
     total_practice |-> total_practice,
     last_error |-> last_error,
     recent_radicals |-> recent_radicals,
     last_big_code |-> last_big_code]

\* the step that leaves the GameState as s
Becomes(s) ==
    /\ radicals' = s.radicals
    /\ current_radical' = s.current_radical
    /\ remaining_practice' = s.remaining_practice
    /\ correct_count' = s.correct_count
    /\ wrong_count' = s.wrong_count
    /\ total_practice' = s.total_practice
    /\ last_error' = s.last_error
    /\ recent_radicals' = s.recent_radicals
    /\ last_big_code' = s.last_big_code

\* self.radicals.get(i): Some(radical) or None
Get(self, i) ==
    IF i >= 0 /\ i < Len(self.radicals) THEN <<self.radicals[i + 1]>> ELSE <<>>

\* GameState::current_radical()
current(self) == Get(self, self.current_radical)

\* NeedsPractice that asks only for an entry
NeedsPracticeKnown(self, text) == text \in DOMAIN self.remaining_practice

\* self.remaining_practice.get(text).map_or(false, |&c| c > 0)
NeedsPractice(self, text) ==
    /\ text \in DOMAIN self.remaining_practice
    /\ self.remaining_practice[text] > 0

\* self.remaining_practice.values()
Values(self) ==
    {self.remaining_practice[t] : t \in DOMAIN self.remaining_practice}

\* is_game_over with any in place of all
is_game_over_any(self) == \E c \in Values(self) : c = 0

\* GameState::is_game_over
is_game_over(self) == \A c \in Values(self) : c = 0

RECURSIVE SumOver(_, _)
\* the sum of f over the set S
SumOver(f, S) ==
    IF S = {} THEN 0
    ELSE LET x == CHOOSE y \in S : TRUE
         IN  f[x] + SumOver(f, S \ {x})

\* progress whose completed part counts the correct answers only
progress_correct_only(self) ==
    LET total == SumOver(self.remaining_practice, DOMAIN self.remaining_practice)
                     + self.correct_count + self.wrong_count
        completed == self.correct_count
    IN  <<completed, total>>

\* GameState::progress: (completed, total)
progress(self) ==
    LET total == SumOver(self.remaining_practice, DOMAIN self.remaining_practice)
                     + self.correct_count + self.wrong_count
        completed == self.correct_count + self.wrong_count
    IN  <<completed, total>>

----------------------------------------------------------------------------
\* The answer evaluator.

\* the message of an empty input
EmptyInputMessage ==
    [kind |-> "empty input", status |-> "", text |-> "", code |-> <<>>,
     count |-> 0, permille |-> 0, rank |-> 0]

\* the message of an empty catalog
NoRadicalMessage ==
    [kind |-> "no radical", status |-> "", text |-> "", code |-> <<>>,
     count |-> 0, permille |-> 0, rank |-> 0]

\* get_frequency_stats whose rank is the 0-based position
get_frequency_stats_from_zero(self, radical) ==
    LET rs == self.radicals
        total == SumOver([i \in 1..Len(rs) |-> rs[i].frequency], 1..Len(rs))
        percentage ==
            IF total > 0
            THEN (2 * radical.frequency * 10000000 + total) \div (2 * total)
            ELSE 0
        sorted == SortFrequency(rs)
        at == {i \in 1..Len(sorted) : sorted[i].text = radical.text}
        rank == IF at = {} THEN 0
                ELSE (CHOOSE i \in at : \A j \in at : i <= j) - 1
    IN  <<radical.frequency, percentage, rank>>

\* GameState::get_frequency_stats: (frequency, per-mille share in units of
\* 0.0001 as {:.4} prints it, rank)
get_frequency_stats(self, radical) ==
    LET rs == self.radicals
        total == SumOver([i \in 1..Len(rs) |-> rs[i].frequency], 1..Len(rs))
        percentage ==
            IF total > 0
            THEN (2 * radical.frequency * 10000000 + total) \div (2 * total)
            ELSE 0
        sorted == SortFrequency(rs)
        at == {i \in 1..Len(sorted) : sorted[i].text = radical.text}
        rank == IF at = {} THEN 0 ELSE CHOOSE i \in at : \A j \in at : i <= j
    IN  <<radical.frequency, percentage, rank>>

\* the larger index that still names a radical: current_radical.min(len - 1)
ClampedIndex(self) ==
    IF self.current_radical < Len(self.radicals) - 1
    THEN self.current_radical
    ELSE Len(self.radicals) - 1

\* Matches that compares with the full code in either mode
MatchesFullCode(input_lower, radical, cfg) ==
    input_lower = to_lowercase(radical.code)

\* the comparison of check_input_core, on the lowercased input
Matches(input_lower, radical, cfg) ==
    CASE cfg.practice_mode = "BigCode" ->
             input_lower = to_lowercase(radical.big_code)
      [] cfg.practice_mode = "DualCode" ->
             input_lower = to_lowercase(radical.code)

\* GameState::check_input_core: (is_correct, message)
check_input_core(self, inp, cfg) ==
    IF self.radicals = <<>> THEN <<FALSE, <<NoRadicalMessage>>>>
    ELSE
    LET radical == self.radicals[ClampedIndex(self) + 1]
        trimmed == trim(inp)
    IN  IF trimmed = <<>> THEN <<FALSE, <<EmptyInputMessage>>>>
        ELSE
        LET is_correct == Matches(to_lowercase(trimmed), radical, cfg)
            stats == get_frequency_stats(self, radical)
            message ==
                [kind |-> "judged",
                 status |-> IF is_correct THEN "correct" ELSE "wrong",
                 text |-> radical.text,
                 code |-> to_uppercase(radical.big_code)
                              \o to_lowercase(radical.small_code),
                 count |-> stats[1],
                 permille |-> stats[2],
                 rank |-> stats[3]]
        IN  <<is_correct, <<message>>>>

\* the length recent_radicals is cut to
RecentCap == 6

\* PushRecent that adds the text at the back
PushRecentAtBack(recent, text) ==
    LET pushed == Append(recent, text)
    IN  IF Len(pushed) > RecentCap THEN SubSeq(pushed, 1, Len(pushed) - 1)
        ELSE pushed

\* PushRecent that pops one entry too late
PushRecentLate(recent, text) ==
    LET pushed == <<text>> \o recent
    IN  IF Len(pushed) > RecentCap + 1 THEN SubSeq(pushed, 1, Len(pushed) - 1)
        ELSE pushed

\* recent_radicals.insert(0, text), then pop() when longer than the cap
PushRecent(recent, text) ==
    LET pushed == <<text>> \o recent
    IN  IF Len(pushed) > RecentCap THEN SubSeq(pushed, 1, Len(pushed) - 1)
        ELSE pushed

\* SaturatingSub1 that takes nothing
SubNothing(c) == c

\* c.saturating_sub(1)
SaturatingSub1(c) == IF c > 0 THEN c - 1 ELSE 0

\* AddPenalty that adds 1 whatever the penalty
AddPenaltyOnce(c, cfg) == c + 1

\* *c += config.penalty
AddPenalty(c, cfg) == c + cfg.penalty

\* remaining_practice.entry(text).and_modify(f): only an existing entry changes
AndModify(practice, text, value) ==
    IF text \in DOMAIN practice THEN [practice EXCEPT ![text] = value]
    ELSE practice

\* CheckEmpty that records the empty input as a wrong answer
CheckEmptyAsWrong(self) ==
    [self |-> [self EXCEPT !.last_error = <<EmptyInputMessage>>,
                           !.wrong_count = @ + 1,
                           !.total_practice = @ + 1],
     ret |-> FALSE]

\* check_input on an input that is empty after the trim
CheckEmpty(self) ==
    [self |-> [self EXCEPT !.last_error = <<EmptyInputMessage>>],
     ret |-> FALSE]

\* CheckAnswer that leaves total_practice as it is
CheckAnswerNotTotalling(self, inp, cfg) ==
    LET core == check_input_core(self, inp, cfg)
        is_correct == core[1]
        cur == current(self)
    IN  IF cur = <<>>
        THEN [self |-> [self EXCEPT !.last_error = core[2]], ret |-> is_correct]
        ELSE
        LET text == cur[1].text
            count == IF text \in DOMAIN self.remaining_practice
                     THEN self.remaining_practice[text] ELSE 0
        IN  [self |->
                [self EXCEPT
                    !.last_error = core[2],
                    !.last_big_code = <<cur[1].big_code>>,
                    !.recent_radicals = PushRecent(self.recent_radicals, text),
                    !.correct_count = IF is_correct THEN @ + 1 ELSE @,
                    !.wrong_count = IF is_correct THEN @ ELSE @ + 1,
                    !.remaining_practice =
                        AndModify(@, text,
                                  IF is_correct THEN SaturatingSub1(count)
                                  ELSE AddPenalty(count, cfg))],
             ret |-> is_correct]

\* CheckAnswer that counts a wrong answer also when there is no current
\* radical
CheckAnswerCountingNone(self, inp, cfg) ==
    LET core == check_input_core(self, inp, cfg)
        is_correct == core[1]
        cur == current(self)
    IN  IF cur = <<>>
        THEN [self |-> [self EXCEPT !.last_error = core[2],
                                    !.wrong_count = @ + 1,
                                    !.total_practice = @ + 1],
              ret |-> is_correct]
        ELSE
        LET text == cur[1].text
            count == IF text \in DOMAIN self.remaining_practice
                     THEN self.remaining_practice[text] ELSE 0
        IN  [self |->
                 [self EXCEPT
                      !.last_error = core[2],
                      !.last_big_code = <<cur[1].big_code>>,
                      !.recent_radicals = PushRecent(self.recent_radicals, text),
                      !.correct_count = IF is_correct THEN @ + 1 ELSE @,
                      !.wrong_count = IF is_correct THEN @ ELSE @ + 1,
                      !.remaining_practice =
                          AndModify(@, text,
                                    IF is_correct THEN SaturatingSub1(count)
                                    ELSE AddPenalty(count, cfg)),
                      !.total_practice = @ + 1],
             ret |-> is_correct]

\* CheckAnswer whose wrong answer also takes one correct answer back
CheckAnswerTakingBack(self, inp, cfg) ==
    LET core == check_input_core(self, inp, cfg)
        is_correct == core[1]
        cur == current(self)
    IN  IF cur = <<>>
        THEN [self |-> [self EXCEPT !.last_error = core[2]], ret |-> is_correct]
        ELSE
        LET text == cur[1].text
            count == IF text \in DOMAIN self.remaining_practice
                     THEN self.remaining_practice[text] ELSE 0
        IN  [self |->
                 [self EXCEPT
                      !.last_error = core[2],
                      !.last_big_code = <<cur[1].big_code>>,
                      !.recent_radicals = PushRecent(self.recent_radicals, text),
                      !.correct_count =
                          IF is_correct THEN @ + 1 ELSE SaturatingSub1(@),
                      !.wrong_count = IF is_correct THEN @ ELSE @ + 1,
                      !.remaining_practice =
                          AndModify(@, text,
                                    IF is_correct THEN SaturatingSub1(count)
                                    ELSE AddPenalty(count, cfg)),
                      !.total_practice = @ + 1],
             ret |-> is_correct]

\* check_input on any other input
CheckAnswer(self, inp, cfg) ==
    LET core == check_input_core(self, inp, cfg)
        is_correct == core[1]
        cur == current(self)
    IN  IF cur = <<>>
        THEN [self |-> [self EXCEPT !.last_error = core[2]], ret |-> is_correct]
        ELSE
        LET text == cur[1].text
            count == IF text \in DOMAIN self.remaining_practice
                     THEN self.remaining_practice[text] ELSE 0
        IN  [self |->
                [self EXCEPT
                    !.last_error = core[2],
                    !.last_big_code = <<cur[1].big_code>>,
                    !.recent_radicals = PushRecent(self.recent_radicals, text),
                    !.correct_count = IF is_correct THEN @ + 1 ELSE @,
                    !.wrong_count = IF is_correct THEN @ ELSE @ + 1,
                    !.remaining_practice =
                        AndModify(@, text,
                                  IF is_correct THEN SaturatingSub1(count)
                                  ELSE AddPenalty(count, cfg)),
                    !.total_practice = @ + 1],
             ret |-> is_correct]

\* GameState::check_input: the state it leaves and what it returns
check_input(self, inp, cfg) ==
    IF trim(inp) = <<>> THEN CheckEmpty(self)
    ELSE CheckAnswer(self, trim(inp), cfg)

----------------------------------------------------------------------------
\* The practice scheduler.

\* the recency windows random_range(3..=6) can draw
Intervals == 3..6

\* (0..self.radicals.len()).collect()
Indices(self) == [i \in 1..Len(self.radicals) |-> i - 1]

\* the candidate lists the match on config.order can build
CandidateLists(self, cfg) ==
    LET rs == self.radicals
        indices == Indices(self)
    IN  CASE cfg.order = "Alphabetical" -> {indices}
          [] cfg.order = "Frequency" ->
                 {StableSort(indices, [i \in 1..Len(rs) |-> [j \in 1..Len(rs) |->
                     rs[i].frequency > rs[j].frequency]])}
          [] cfg.order = "Keyboard" -> {indices}
          [] cfg.order = "Random" -> Shuffles(indices)

\* RecentlySeen that skips the newest entry of recent_radicals
RecentlySeenSkippingNewest(self, text, random_interval) ==
    \E p \in 2..Len(self.recent_radicals) :
        p <= random_interval /\ self.recent_radicals[p] = text

\* RecentlySeen that looks at all of recent_radicals, whatever the interval
RecentlySeenAnywhere(self, text, random_interval) ==
    \E p \in 1..Len(self.recent_radicals) : self.recent_radicals[p] = text

\* recent_radicals.iter().take(random_interval).any(|r| r == text)
RecentlySeen(self, text, random_interval) ==
    \E p \in 1..Len(self.recent_radicals) :
        p <= random_interval /\ self.recent_radicals[p] = text

\* the closure of candidates.retain
ShouldRetain(self, i, random_interval) ==
    /\ Get(self, i) # <<>>
    /\ NeedsPractice(self, Get(self, i)[1].text)
    /\ ~RecentlySeen(self, Get(self, i)[1].text, random_interval)

\* candidates.retain(..): the candidates kept, in the order of the list
Retained(self, candidates, random_interval) ==
    LET keep(i) == ShouldRetain(self, i, random_interval)
    IN  SelectSeq(candidates, keep)

\* Relaxed that drops the remaining-count condition with the recency one
RelaxedAll(self) == Indices(self)

\* the relaxed list: every index, in catalog order, whose radical needs practice
Relaxed(self) ==
    LET keep(i) == Get(self, i) # <<>> /\ NeedsPractice(self, Get(self, i)[1].text)
    IN  SelectSeq(Indices(self), keep)

\* FinalCandidates that never relaxes
FinalCandidatesStrict(self, candidates, random_interval) ==
    Retained(self, candidates, random_interval)

\* the candidates left when the next radical is chosen
FinalCandidates(self, candidates, random_interval) ==
    IF Retained(self, candidates, random_interval) = <<>> THEN Relaxed(self)
    ELSE Retained(self, candidates, random_interval)

\* Select that also clears the feedback of the last answer
SelectClearingFeedback(self, next_idx) ==
    [self EXCEPT
        !.recent_radicals =
            IF Get(self, next_idx) # <<>>
            THEN PushRecent(@, Get(self, next_idx)[1].text) ELSE @,
        !.current_radical = next_idx,
        !.last_error = <<>>]

\* Select that records the text and forgets to move current_radical
SelectKeepingIndex(self, next_idx) ==
    [self EXCEPT
         !.recent_radicals =
             IF Get(self, next_idx) # <<>>
             THEN PushRecent(@, Get(self, next_idx)[1].text)
             ELSE @]

\* the state after candidates.first() is made current
Select(self, next_idx) ==
    [self EXCEPT
        !.recent_radicals =
            IF Get(self, next_idx) # <<>>
            THEN PushRecent(@, Get(self, next_idx)[1].text) ELSE @,
        !.current_radical = next_idx]

\* next_radical that goes back to the first radical when none is left
next_radical_rewind(self, candidates, random_interval) ==
    IF self.radicals = <<>> THEN [self |-> self, ret |-> FALSE]
    ELSE
    LET final == FinalCandidates(self, candidates, random_interval)
    IN  IF final # <<>>
        THEN [self |-> Select(self, final[1]), ret |-> TRUE]
        ELSE [self |-> [self EXCEPT !.current_radical = 0], ret |-> FALSE]

\* GameState::next_radical with the candidate list and the interval drawn:
\* the state it leaves and what it returns
next_radical(self, candidates, random_interval) ==
    IF self.radicals = <<>> THEN [self |-> self, ret |-> FALSE]
    ELSE
    LET final == FinalCandidates(self, candidates, random_interval)
    IN  IF final # <<>>
        THEN [self |-> Select(self, final[1]), ret |-> TRUE]
        ELSE [self |-> self, ret |-> FALSE]

----------------------------------------------------------------------------
\* The operations as steps.

\* no draw is recorded
NoDraw ==
    [candidates |-> <<>>, random_interval |-> 0, answered |-> FALSE,
     from |-> 0]

\* no answers are counted per text
NoTally == << >>

\* the settings menu as it opens: the first item selected, the default
\* files and interface mode, nothing typed
NoMenu ==
    [selected_item |-> 0,
     radical_file |-> <<"res/yujoy-3.8.0.txt">>,
     frequency_file |-> <<"res/counts.txt">>,
     mode |-> "Normal",
     cancelled |-> FALSE,
     input |-> <<>>]

\* the files of a session whose tables are not looked at: no save.json
NoDisk == [code_file |-> <<>>, counts_file |-> <<>>, save_json |-> <<>>]

\* a GameState fresh from GameState::new(rs, config) for a catalog of cats,
\* before run_app reads a key, beside the files of disks
InitOn(cats, disks) ==
    /\ config \in GameConfigs
    /\ \E rs \in cats : \E s \in new(rs, config) :
        /\ radicals = s.radicals
        /\ current_radical = s.current_radical
        /\ remaining_practice = s.remaining_practice
        /\ correct_count = s.correct_count
        /\ wrong_count = s.wrong_count
        /\ total_practice = s.total_practice
        /\ last_error = s.last_error
        /\ recent_radicals = s.recent_radicals
        /\ last_big_code = s.last_big_code
    /\ input_buffer = <<>>
    /\ pc = "await"
    /\ last_op = "new"
    /\ input = <<>>
    /\ ret = FALSE
    /\ drawn = NoDraw
    /\ disk \in disks
    /\ menu = NoMenu
    /\ tally = NoTally

InitWith(cats) == InitOn(cats, {NoDisk})

Init == InitWith(Catalogs)

\* a call of check_input(inp, config)
CheckInput ==
    \E inp \in Inputs :
        LET r == check_input(Self, inp, config)
        IN  /\ r.self.total_practice <= MaxPractice
            /\ Becomes(r.self)
            /\ last_op' = "check_input"
            /\ input' = inp
            /\ ret' = r.ret
            /\ drawn' = NoDraw
            /\ UNCHANGED <<config, input_buffer, pc, disk, menu, tally>>

\* a call of next_radical(config)
NextRadical ==
    \E candidates \in CandidateLists(Self, config) :
        \E random_interval \in Intervals :
            LET r == next_radical(Self, candidates, random_interval)
            IN  /\ Becomes(r.self)
                /\ last_op' = "next_radical"
                /\ input' = <<>>
                /\ ret' = r.ret
                /\ drawn' = NoDraw
                /\ UNCHANGED <<config, input_buffer, pc, disk, menu, tally>>

Next == CheckInput \/ NextRadical

\* any sequence of check_input and next_radical calls on a new GameState
Spec == Init /\ [][Next]_vars

\* whether the last call evaluated an answer to the current radical
Answered ==
    last_op = "check_input" /\ trim(input) # <<>> /\ current(Self) # <<>>

\* a call of next_radical(config) whose draws are recorded: the candidate list
\* built for the call, the interval drawn, whether the call follows an
\* evaluated answer, and the index that was current
NextRadicalDrawn ==
    \E candidates \in CandidateLists(Self, config) :
        \E random_interval \in Intervals :
            LET r == next_radical(Self, candidates, random_interval)
            IN  /\ Becomes(r.self)
                /\ last_op' = "next_radical"
                /\ input' = <<>>
                /\ ret' = r.ret
                /\ drawn' = [candidates |-> candidates,
                             random_interval |-> random_interval,
                             answered |-> Answered,
                             from |-> current_radical]
                /\ UNCHANGED <<config, input_buffer, pc, disk, menu, tally>>

\* a call of check_input(inp, config) between recorded next_radical calls
CheckInputDrawn ==
    \E inp \in Inputs :
        LET r == check_input(Self, inp, config)
        IN  /\ r.self.total_practice <= MaxDrawnPractice
            /\ Becomes(r.self)
            /\ last_op' = "check_input"
            /\ input' = inp
            /\ ret' = r.ret
            /\ drawn' = NoDraw
            /\ UNCHANGED <<config, input_buffer, pc, disk, menu, tally>>

NextDrawn == CheckInputDrawn \/ NextRadicalDrawn

\* Spec with the draws of every next_radical call on record
SpecDrawn == Init /\ [][NextDrawn]_vars

----------------------------------------------------------------------------
\* The session loop, run_app: one step for each key event it handles.

InitLoop == InitWith(LoopCatalogs)

\* the character keys of the model
Keys == {" ", "a", "b", "s", "A", "B", "S"}

\* the learner types towards one of Inputs
IsTyped(buffer) ==
    \E inp \in Inputs :
        Len(buffer) <= Len(inp) /\ SubSeq(inp, 1, Len(buffer)) = buffer

\* KeyCode::Char(c): input_buffer.push(c)
KeyChar ==
    \E c \in Keys :
        /\ pc = "await"
        /\ IsTyped(Append(input_buffer, c))
        /\ input_buffer' = Append(input_buffer, c)
        /\ UNCHANGED <<state_vars, config, pc, last_op, input, ret, drawn,
                       disk, menu, tally>>

\* KeyCode::Backspace: input_buffer.pop()
KeyBackspace ==
    /\ pc = "await"
    /\ input_buffer' = IF input_buffer = <<>> THEN <<>>
                       ELSE SubSeq(input_buffer, 1, Len(input_buffer) - 1)
    /\ UNCHANGED <<state_vars, config, pc, last_op, input, ret, drawn,
                       disk, menu, tally>>

\* the wrong-answer branch of the Enter handler: last_error is cleared when
\* there is no current radical
AfterWrong(self) ==
    IF current(self) # <<>> THEN self ELSE [self EXCEPT !.last_error = <<>>]

\* EnterCorrect that never ends the loop
EnterCorrectWaiting(checked) ==
    \E candidates \in CandidateLists(checked, config) :
        \E random_interval \in Intervals :
            LET r == next_radical(checked, candidates, random_interval)
            IN  /\ Becomes(r.self)
                /\ last_op' = "next_radical"
                /\ input' = <<>>
                /\ ret' = r.ret
                /\ pc' = "await"

\* EnterCorrect that ends the loop as soon as one counter is 0
EnterCorrectEndingEarly(checked) ==
    \E candidates \in CandidateLists(checked, config) :
        \E random_interval \in Intervals :
            LET r == next_radical(checked, candidates, random_interval)
            IN  /\ Becomes(r.self)
                /\ last_op' = "next_radical"
                /\ input' = <<>>
                /\ ret' = r.ret
                /\ pc' = IF ~r.ret \/ is_game_over_any(r.self) THEN "complete"
                         ELSE "await"

\* KeyCode::Enter on a non-empty buffer, the answer correct: next_radical runs,
\* and the loop ends when it returns false and the game is over
EnterCorrect(checked) ==
    \E candidates \in CandidateLists(checked, config) :
        \E random_interval \in Intervals :
            LET r == next_radical(checked, candidates, random_interval)
            IN  /\ Becomes(r.self)
                /\ last_op' = "next_radical"
                /\ input' = <<>>
                /\ ret' = r.ret
                /\ pc' = IF ~r.ret /\ is_game_over(r.self) THEN "complete"
                         ELSE "await"

\* EnterWrong that moves on to the next radical as a correct answer does
EnterWrongAdvancing(checked) == EnterCorrect(checked)

\* KeyCode::Enter on a non-empty buffer, the answer not correct
EnterWrong(checked) ==
    /\ Becomes(AfterWrong(checked))
    /\ last_op' = "check_input"
    /\ input' = input_buffer
    /\ ret' = FALSE
    /\ pc' = "await"

\* KeyCode::Enter
KeyEnter ==
    /\ pc = "await"
    /\ IF input_buffer = <<>> THEN UNCHANGED vars
       ELSE LET r == check_input(Self, input_buffer, config)
            IN  /\ r.self.total_practice <= MaxLoopPractice
                /\ input_buffer' = <<>>
                /\ UNCHANGED <<config, drawn, disk, menu, tally>>
                /\ IF r.ret THEN EnterCorrect(r.self) ELSE EnterWrong(r.self)

\* KeyCode::Esc, or q with the quit modifier
KeyQuit ==
    /\ pc = "await"
    /\ pc' = "quit"
    /\ UNCHANGED <<state_vars, config, input_buffer, last_op, input, ret,
                   drawn, disk, menu, tally>>

NextLoop == KeyChar \/ KeyBackspace \/ KeyEnter \/ KeyQuit

\* a session: run_app on a new GameState
SpecLoop == InitLoop /\ [][NextLoop]_vars

\* the answers counted so far for a text
Tally(text) ==
    IF text \in DOMAIN tally THEN tally[text] ELSE [correct |-> 0, wrong |-> 0]

\* the tally after an answer, correct or not, on a text
Tallied(text, correct) ==
    [t \in DOMAIN tally \cup {text} |->
        IF t # text THEN tally[t]
        ELSE IF correct THEN [Tally(t) EXCEPT !.correct = @ + 1]
        ELSE [Tally(t) EXCEPT !.wrong = @ + 1]]

\* KeyCode::Enter, with the answer counted for the text of the radical shown
KeyEnterTallied ==
    /\ pc = "await"
    /\ IF input_buffer = <<>> THEN UNCHANGED vars
       ELSE LET r == check_input(Self, input_buffer, config)
            IN  /\ r.self.total_practice <= MaxLoopPractice
                /\ input_buffer' = <<>>
                /\ tally' = IF trim(input_buffer) # <<>> /\ current(Self) # <<>>
                            THEN Tallied(current(Self)[1].text, r.ret)
                            ELSE tally
                /\ UNCHANGED <<config, drawn, disk, menu>>
                /\ IF r.ret THEN EnterCorrect(r.self) ELSE EnterWrong(r.self)

NextTally == KeyChar \/ KeyBackspace \/ KeyEnterTallied \/ KeyQuit

\* a session whose answers are counted text by text
SpecTally == InitLoop /\ [][NextTally]_vars

\* the wrong answers of a learner who then answers correctly
MaxWrong == 2

\* the KeyCode::Char events that type an answer the current radical accepts
TypeCorrect ==
    \E inp \in Inputs :
        /\ pc = "await"
        /\ input_buffer = <<>>
        /\ check_input(Self, inp, config).ret
        /\ input_buffer' = inp
        /\ UNCHANGED <<state_vars, config, pc, last_op, input, ret, drawn,
                       disk, menu, tally>>

\* the KeyCode::Char events that type an answer it does not accept
TypeWrong ==
    \E inp \in Inputs :
        /\ pc = "await"
        /\ input_buffer = <<>>
        /\ wrong_count < MaxWrong
        /\ trim(inp) # <<>>
        /\ ~check_input(Self, inp, config).ret
        /\ input_buffer' = inp
        /\ UNCHANGED <<state_vars, config, pc, last_op, input, ret, drawn,
                       disk, menu, tally>>

\* the answers that end any session of this learner: the guards below stop
\* a session that has had them all
AnswerCap ==
    Cardinality(DOMAIN remaining_practice) * config.min_practice_count
        + (config.penalty + 1) * MaxWrong

\* KeyCode::Enter on the typed answer
EnterTyped ==
    /\ pc = "await"
    /\ input_buffer # <<>>
    /\ total_practice < AnswerCap
    /\ LET r == check_input(Self, input_buffer, config)
       IN  /\ input_buffer' = <<>>
           /\ UNCHANGED <<config, drawn, disk, menu, tally>>
           /\ IF r.ret THEN EnterCorrect(r.self) ELSE EnterWrong(r.self)

NextLearner == TypeCorrect \/ TypeWrong \/ EnterTyped

\* an answer is evaluated while the loop waits for one
Answering ==
    /\ pc = "await"
    /\ radicals # <<>>
    /\ total_practice < AnswerCap
    /\ total_practice' = total_practice + 1

\* a session with a learner who goes on answering while the loop waits and,
\* after MaxWrong wrong answers at most, answers correctly
SpecLearner ==
    /\ InitLoop
    /\ [][NextLearner]_vars
    /\ WF_total_practice(Answering)

----------------------------------------------------------------------------
\* The loader and the start of a session: main loads the two tables and
\* builds the GameState.  A table is a sequence of lines, a line the sequence
\* of its whitespace-separated fields; a code and a number are sequences of
\* characters, a text is one symbol.

\* the value of a decimal digit, -1 for any other character
DigitValue(c) ==
    CASE c = "0" -> 0 [] c = "1" -> 1 [] c = "2" -> 2 [] c = "3" -> 3
      [] c = "4" -> 4 [] c = "5" -> 5 [] c = "6" -> 6 [] c = "7" -> 7
      [] c = "8" -> 8 [] c = "9" -> 9 [] OTHER -> -1

RECURSIVE DecimalValue(_)
\* the number a sequence of digits writes
DecimalValue(digits) ==
    IF digits = <<>> THEN 0
    ELSE 10 * DecimalValue(SubSeq(digits, 1, Len(digits) - 1))
             + DigitValue(digits[Len(digits)])

\* field.parse::<usize>().unwrap_or(0): digits after an optional '+', else 0
ParseOrZero(field) ==
    LET digits == IF field # <<>> /\ field[1] = "+" THEN Tail(field) ELSE field
    IN  IF digits # <<>> /\ \A i \in 1..Len(digits) : DigitValue(digits[i]) >= 0
        THEN DecimalValue(digits)
        ELSE 0

RECURSIVE load_frequency_data_first_wins(_)
\* load_frequency_data that keeps the first value read for a text
load_frequency_data_first_wins(lines) ==
    IF lines = <<>> THEN << >>
    ELSE LET map == load_frequency_data_first_wins(SubSeq(lines, 1, Len(lines) - 1))
             parts == lines[Len(lines)]
         IN  IF Len(parts) >= 2 /\ parts[1] \notin DOMAIN map
             THEN [t \in DOMAIN map \cup {parts[1]} |->
                      IF t = parts[1] THEN ParseOrZero(parts[2]) ELSE map[t]]
             ELSE map

RECURSIVE load_frequency_data(_)
\* Radical::load_frequency_data: the map of the lines read so far, with the
\* last line inserted when it has two fields or more
load_frequency_data(lines) ==
    IF lines = <<>> THEN << >>
    ELSE LET map == load_frequency_data(SubSeq(lines, 1, Len(lines) - 1))
             parts == lines[Len(lines)]
         IN  IF Len(parts) >= 2
             THEN [t \in DOMAIN map \cup {parts[1]} |->
                      IF t = parts[1] THEN ParseOrZero(parts[2]) ELSE map[t]]
             ELSE map

\* Radical::load_code_data: one radical, of frequency 0, for every line of
\* two fields or more
load_code_data(lines) ==
    LET has_two(parts) == Len(parts) >= 2
        kept == SelectSeq(lines, has_two)
    IN  [i \in 1..Len(kept) |-> Radical(kept[i][1], kept[i][2], 0)]

\* Radical::load_from_files: the frequencies are merged in by text
load_from_files(counts_file, code_file) ==
    LET frequency_map == load_frequency_data(counts_file)
        loaded == load_code_data(code_file)
    IN  [i \in 1..Len(loaded) |->
            IF loaded[i].text \in DOMAIN frequency_map
            THEN [loaded[i] EXCEPT !.frequency = frequency_map[loaded[i].text]]
            ELSE loaded[i]]

\* the code tables of the model
CodeFiles ==
    { << >>,
      << << <<"s", "a">>, "t1" >>, << <<"s">>, "t2" >>, << <<"a", "b">>, "t3" >> >>,
      << << <<"B">>, "t1" >>, << <<"a", "b">>, "t2" >>, << <<"b">>, "t1" >> >>,
      << << <<";">>, "t1" >>, << >>, << <<"S", "a">>, "t2" >>,
         << <<"s">>, "t3", "t4" >> >>,
      << << <<"s">> >>, << <<"b">>, "t2" >>, << <<"A", "b">>, "t3" >>,
         << <<"a", "b">>, "t1" >> >>,
      << << <<"b">>, "t1" >>, << <<"a">>, "t2" >>, << <<"s", "a">>, "t3" >> >> }

\* the frequency tables of the model
CountsFiles ==
    { << >>,
      << <<"t1", <<"5">>>>, <<"t2", <<"1", "0">>>>, <<"t3", <<"5">>>> >>,
      << <<"t1", <<"7">>>>, <<"t3">>, <<"t1", <<"2">>>>, <<"t2", <<"-", "3">>>> >>,
      << <<"t2", <<"+", "4">>, "t1">>, << >>, <<"t3", <<"9">>>>,
         <<"t3", <<"x">>>> >>,
      << <<"t4", <<"8">>>>, <<"t1", <<"3">>>>, <<"t2", <<"3">>>>, <<"t1">> >> }

\* no GameState is built yet
NoGame ==
    [radicals |-> <<>>,
     current_radical |-> 0,
     remaining_practice |-> << >>,
     correct_count |-> 0,
     wrong_count |-> 0,
     total_practice |-> 0,
     last_error |-> <<>>,
     recent_radicals |-> <<>>,
     last_big_code |-> <<>>]

\* main before the tables are read: the settings are made, the files are there
InitStart ==
    /\ config \in GameConfigs
    /\ disk \in {[code_file |-> code, counts_file |-> counts, save_json |-> <<>>] :
                     code \in CodeFiles, counts \in CountsFiles}
    /\ radicals = NoGame.radicals
    /\ current_radical = NoGame.current_radical
    /\ remaining_practice = NoGame.remaining_practice
    /\ correct_count = NoGame.correct_count
    /\ wrong_count = NoGame.wrong_count
    /\ total_practice = NoGame.total_practice
    /\ last_error = NoGame.last_error
    /\ recent_radicals = NoGame.recent_radicals
    /\ last_big_code = NoGame.last_big_code
    /\ input_buffer = <<>>
    /\ pc = "start"
    /\ last_op = "none"
    /\ input = <<>>
    /\ ret = FALSE
    /\ drawn = NoDraw
    /\ menu = NoMenu
    /\ tally = NoTally

\* main: Radical::load_from_files, then GameState::new, then run_app waits
\* for a key
StartSession ==
    /\ pc = "start"
    /\ \E s \in new(load_from_files(disk.counts_file, disk.code_file), config) :
           Becomes(s)
    /\ pc' = "await"
    /\ last_op' = "new"
    /\ UNCHANGED <<config, input_buffer, input, ret, drawn, disk, menu, tally>>

NextStart == StartSession

\* the start of a session, from the tables to the first prompt
SpecStart == InitStart /\ [][NextStart]_vars

----------------------------------------------------------------------------
\* The saved game: save_to_file and load_from_file.  A JSON object is a record,
\* a JSON array a sequence; the entries of a map are written one by one.

\* the orders in which a HashMap can yield its entries
EntryOrders(practice) ==
    LET keys == DOMAIN practice
        n == Cardinality(keys)
    IN  {[i \in 1..n |-> <<f[i], practice[f[i]]>>] :
            f \in {g \in [1..n -> keys] : \A a, b \in 1..n : a # b => g[a] # g[b]}}

\* to_json that writes an empty recent_radicals
to_json_without_recent(self, cfg, entries) ==
    [radicals |-> self.radicals,
     current_radical |-> self.current_radical,
     remaining_practice |-> entries,
     correct_count |-> self.correct_count,
     wrong_count |-> self.wrong_count,
     total_practice |-> self.total_practice,
     recent_radicals |-> << >>,
     config |-> cfg]

\* serde_json::to_string(&SaveData {..}): last_error and last_big_code are not
\* fields of SaveData
to_json(self, cfg, entries) ==
    [radicals |-> self.radicals,
     current_radical |-> self.current_radical,
     remaining_practice |-> entries,
     correct_count |-> self.correct_count,
     wrong_count |-> self.wrong_count,
     total_practice |-> self.total_practice,
     recent_radicals |-> self.recent_radicals,
     config |-> cfg]

\* the fields of SaveData
SaveDataFields ==
    {"radicals", "current_radical", "remaining_practice", "correct_count",
     "wrong_count", "total_practice", "recent_radicals", "config"}

\* the HashMap serde builds from the entries of a JSON object: a later entry
\* replaces an earlier one of the same key
FromEntries(entries) ==
    [t \in {entries[i][1] : i \in 1..Len(entries)} |->
        LET at == {i \in 1..Len(entries) : entries[i][1] = t}
        IN  entries[CHOOSE i \in at : \A j \in at : j <= i][2]]

\* GameState::load_from_file on the content of save.json: None when there is
\* no file or a field of SaveData is missing from it
load_from_file(save_json) ==
    IF save_json = <<>> THEN <<>>
    ELSE LET doc == save_json[1]
         IN  IF ~(SaveDataFields \subseteq DOMAIN doc) THEN <<>>
             ELSE << [state |->
                          [radicals |-> doc.radicals,
                           current_radical |-> doc.current_radical,
                           remaining_practice |->
                               FromEntries(doc.remaining_practice),
                           correct_count |-> doc.correct_count,
                           wrong_count |-> doc.wrong_count,
                           total_practice |-> doc.total_practice,
                           last_error |-> <<>>,
                           recent_radicals |-> doc.recent_radicals,
                           last_big_code |-> <<>>],
                      config |-> doc.config] >>

\* save.json files that no save_to_file of the model wrote: one whose
\* current_radical is past its two radicals, one of a session under way, one
\* with fields missing
SaveFiles ==
    { [radicals |-> << Radical(<<"a", "b">>, "t1", 3),
                       Radical(<<"s", "a">>, "t2", 10) >>,
       current_radical |-> 5,
       remaining_practice |-> << <<"t2", 1>>, <<"t1", 1>> >>,
       correct_count |-> 0,
       wrong_count |-> 0,
       total_practice |-> 0,
       recent_radicals |-> << >>,
       config |-> GameConfig(1, 1, "DualCode", "Alphabetical")],
      [radicals |-> << Radical(<<"a", "b">>, "t1", 3),
                       Radical(<<"s", "a">>, "t2", 10) >>,
       current_radical |-> 1,
       remaining_practice |-> << <<"t1", 0>>, <<"t2", 2>> >>,
       correct_count |-> 1,
       wrong_count |-> 0,
       total_practice |-> 1,
       recent_radicals |-> <<"t2", "t1">>,
       config |-> GameConfig(2, 1, "BigCode", "Frequency")],
      [radicals |-> << >>, current_radical |-> 0] }

\* a new GameState beside the save.json of an earlier run, if any
InitSave ==
    InitOn(Catalogs,
           {NoDisk} \cup {[NoDisk EXCEPT !.save_json = <<doc>>] : doc \in SaveFiles})

\* a call of check_input(inp, config)
CheckInputSaved ==
    \E inp \in Inputs :
        LET r == check_input(Self, inp, config)
        IN  /\ r.self.total_practice <= MaxSavePractice
            /\ Becomes(r.self)
            /\ last_op' = "check_input"
            /\ input' = inp
            /\ ret' = r.ret
            /\ drawn' = NoDraw
            /\ UNCHANGED <<config, input_buffer, pc, disk, menu, tally>>

\* a call of save_to_file(config)
SaveGame ==
    \E entries \in EntryOrders(remaining_practice) :
        /\ disk' = [disk EXCEPT !.save_json = <<to_json(Self, config, entries)>>]
        /\ last_op' = "save_to_file"
        /\ input' = <<>>
        /\ ret' = TRUE
        /\ drawn' = NoDraw
        /\ UNCHANGED <<state_vars, config, input_buffer, pc, menu, tally>>

\* a call of load_from_file(): on Some the caller goes on with the state and
\* the config it holds, on None with what it had
LoadGame ==
    LET loaded == load_from_file(disk.save_json)
    IN  /\ IF loaded = <<>> THEN UNCHANGED <<state_vars, config>>
           ELSE Becomes(loaded[1].state) /\ config' = loaded[1].config
        /\ last_op' = "load_from_file"
        /\ input' = <<>>
        /\ ret' = (loaded # <<>>)
        /\ drawn' = NoDraw
        /\ UNCHANGED <<input_buffer, pc, disk, menu, tally>>

NextSave == CheckInputSaved \/ SaveGame \/ LoadGame

\* calls of check_input, save_to_file and load_from_file
SpecSave == InitSave /\ [][NextSave]_vars

----------------------------------------------------------------------------
\* The settings menu: GameConfig::show_settings_menu.  A path is a sequence:
\* a listed file is one symbol, a typed path the characters typed.

\* the longest path typed in the model
MaxTyped == 1

\* the characters typed in a path
MenuChars == {"p", " "}

\* the last entry of both lists, shown in place of a typed path
ManualPrompt == <<"manual input prompt">>

\* files of item 0
RadicalFiles ==
    << <<"res/yujoy-3.8.0.txt">>, <<"res/yulight-3.8.0.txt">>,
       <<"res/yustar-3.8.0.txt">>, <<"res/yujoy-3.6.0.txt">>,
       <<"res/yusm-3.9.0-20250522.txt">>, ManualPrompt >>

\* files of item 1
FrequencyFiles ==
    << <<"res/counts.txt">>, <<"res/counts-3.6.0.txt">>, ManualPrompt >>

\* the config the menu opens with
DefaultConfig == GameConfig(4, 2, "DualCode", "Random")

\* files.iter().position(..).unwrap_or(files.len() - 1), counted from 0
current_idx(files, file) ==
    IF \E i \in 1..Len(files) : files[i] = file
    THEN (CHOOSE i \in 1..Len(files) :
              files[i] = file /\ \A j \in 1..(i - 1) : files[j] # file) - 1
    ELSE Len(files) - 1

\* Left on a file item
FileLeft(files, file) ==
    LET idx == current_idx(files, file)
        moved == IF idx > 0 THEN files[idx] ELSE files[Len(files)]
    IN  IF idx = Len(files) - 1 THEN files[Len(files) - 1] ELSE moved

\* Left or Right on a count that never leaves max
StepCountPastMax(n, key, max) ==
    IF key = "Left" THEN (IF n = 1 THEN 1 ELSE n - 1)
    ELSE IF key = "Right" THEN n + 1
    ELSE n

\* Left or Right on penalty (max 10) and min_practice_count (max 5)
StepCount(n, key, max) ==
    IF key = "Left" THEN (IF n = 1 THEN 1 ELSE n - 1)
    ELSE IF key = "Right" THEN (IF n = max THEN max ELSE n + 1)
    ELSE n

\* Left or Right on practice_mode
StepMode(mode, key) ==
    IF key = "Left" THEN "BigCode" ELSE IF key = "Right" THEN "DualCode" ELSE mode

\* Left or Right on order
StepOrder(order, key) ==
    IF key = "Left"
    THEN CASE order = "Alphabetical" -> "Alphabetical"
           [] order = "Frequency" -> "Alphabetical"
           [] order = "Keyboard" -> "Frequency"
           [] order = "Random" -> "Keyboard"
    ELSE IF key = "Right"
    THEN CASE order = "Alphabetical" -> "Frequency"
           [] order = "Frequency" -> "Keyboard"
           [] order = "Keyboard" -> "Random"
           [] order = "Random" -> "Random"
    ELSE order

\* Left or Right on the interface mode
StepGameMode(mode, key) ==
    IF key = "Left" THEN "Normal" ELSE IF key = "Right" THEN "Pretend" ELSE mode

\* the menu opens
InitMenu ==
    /\ config = DefaultConfig
    /\ menu = NoMenu
    /\ tally = NoTally
    /\ pc = "menu"
    /\ disk = NoDisk
    /\ radicals = NoGame.radicals
    /\ current_radical = NoGame.current_radical
    /\ remaining_practice = NoGame.remaining_practice
    /\ correct_count = NoGame.correct_count
    /\ wrong_count = NoGame.wrong_count
    /\ total_practice = NoGame.total_practice
    /\ last_error = NoGame.last_error
    /\ recent_radicals = NoGame.recent_radicals
    /\ last_big_code = NoGame.last_big_code
    /\ input_buffer = <<>>
    /\ last_op = "none"
    /\ input = <<>>
    /\ ret = FALSE
    /\ drawn = NoDraw

\* KeyCode::Up
MenuUp ==
    /\ pc = "menu"
    /\ menu' = [menu EXCEPT !.selected_item = IF @ > 0 THEN @ - 1 ELSE @]
    /\ UNCHANGED <<state_vars, config, input_buffer, pc, last_op, input, ret,
                   drawn, disk, tally>>

\* KeyCode::Down
MenuDown ==
    /\ pc = "menu"
    /\ menu' = [menu EXCEPT !.selected_item = IF @ < 6 THEN @ + 1 ELSE @]
    /\ UNCHANGED <<state_vars, config, input_buffer, pc, last_op, input, ret,
                   drawn, disk, tally>>

\* the items other than the files under KeyCode::Left | KeyCode::Right
ChangeItem(key) ==
    /\ menu.selected_item >= 2
    /\ config' =
           CASE menu.selected_item = 2 ->
                    [config EXCEPT !.penalty = StepCount(@, key, 10)]
             [] menu.selected_item = 3 ->
                    [config EXCEPT !.min_practice_count = StepCount(@, key, 5)]
             [] menu.selected_item = 4 ->
                    [config EXCEPT !.practice_mode = StepMode(@, key)]
             [] menu.selected_item = 5 ->
                    [config EXCEPT !.order = StepOrder(@, key)]
             [] OTHER -> config
    /\ menu' = IF menu.selected_item = 6
               THEN [menu EXCEPT !.mode = StepGameMode(@, key)]
               ELSE menu
    /\ pc' = pc

\* KeyCode::Left
MenuLeft ==
    /\ pc = "menu"
    /\ \/ /\ menu.selected_item = 0
          /\ menu' = [menu EXCEPT !.radical_file = FileLeft(RadicalFiles, @)]
          /\ UNCHANGED <<config, pc>>
       \/ /\ menu.selected_item = 1
          /\ menu' = [menu EXCEPT !.frequency_file = FileLeft(FrequencyFiles, @)]
          /\ UNCHANGED <<config, pc>>
       \/ ChangeItem("Left")
    /\ UNCHANGED <<state_vars, input_buffer, last_op, input, ret, drawn, disk, tally>>

\* Right on a file item: the next file, or the path is asked for
FileRight(files, field) ==
    LET idx == current_idx(files, menu[field])
    IN  IF idx < Len(files) - 1
        THEN /\ menu' = [menu EXCEPT ![field] = files[idx + 2]]
             /\ pc' = pc
        ELSE /\ menu' = [menu EXCEPT !.input = <<>>]
             /\ pc' = "menu_input"

\* KeyCode::Right
MenuRight ==
    /\ pc = "menu"
    /\ \/ /\ menu.selected_item = 0
          /\ FileRight(RadicalFiles, "radical_file")
          /\ UNCHANGED config
       \/ /\ menu.selected_item = 1
          /\ FileRight(FrequencyFiles, "frequency_file")
          /\ UNCHANGED config
       \/ ChangeItem("Right")
    /\ UNCHANGED <<state_vars, input_buffer, last_op, input, ret, drawn, disk, tally>>

\* KeyCode::Enter: return Ok(config)
MenuEnter ==
    /\ pc = "menu"
    /\ pc' = "menu_done"
    /\ UNCHANGED <<state_vars, config, input_buffer, last_op, input, ret,
                   drawn, disk, menu, tally>>

\* KeyCode::Esc: config.cancelled = true; return Ok(config)
MenuEsc ==
    /\ pc = "menu"
    /\ menu' = [menu EXCEPT !.cancelled = TRUE]
    /\ pc' = "menu_done"
    /\ UNCHANGED <<state_vars, config, input_buffer, last_op, input, ret,
                   drawn, disk, tally>>

\* the file item whose path is being typed
TypedField == IF menu.selected_item = 0 THEN "radical_file" ELSE "frequency_file"

\* the list of that item
TypedFiles == IF menu.selected_item = 0 THEN RadicalFiles ELSE FrequencyFiles

\* KeyCode::Char(c) while a path is typed
TypeChar ==
    \E c \in MenuChars :
        /\ pc = "menu_input"
        /\ Len(menu.input) < MaxTyped
        /\ menu' = [menu EXCEPT !.input = Append(@, c)]
        /\ UNCHANGED <<state_vars, config, input_buffer, pc, last_op, input,
                       ret, drawn, disk, tally>>

\* KeyCode::Backspace while a path is typed
TypeBackspace ==
    /\ pc = "menu_input"
    /\ menu' = [menu EXCEPT !.input = IF @ = <<>> THEN <<>>
                                      ELSE SubSeq(@, 1, Len(@) - 1)]
    /\ UNCHANGED <<state_vars, config, input_buffer, pc, last_op, input, ret,
                   drawn, disk, tally>>

\* KeyCode::Enter while a path is typed: taken when something was typed
TypeEnter ==
    /\ pc = "menu_input"
    /\ IF menu.input # <<>>
       THEN /\ menu' = [menu EXCEPT ![TypedField] = trim(menu.input),
                                    !.input = <<>>]
            /\ pc' = "menu"
       ELSE UNCHANGED <<menu, pc>>
    /\ UNCHANGED <<state_vars, config, input_buffer, last_op, input, ret,
                   drawn, disk, tally>>

\* KeyCode::Esc while a path is typed: back to the last listed file
TypeEsc ==
    /\ pc = "menu_input"
    /\ menu' = [menu EXCEPT ![TypedField] = TypedFiles[Len(TypedFiles) - 1],
                            !.input = <<>>]
    /\ pc' = "menu"
    /\ UNCHANGED <<state_vars, config, input_buffer, last_op, input, ret,
                   drawn, disk, tally>>

NextMenu ==
    \/ MenuUp \/ MenuDown \/ MenuLeft \/ MenuRight \/ MenuEnter \/ MenuEsc
    \/ TypeChar \/ TypeBackspace \/ TypeEnter \/ TypeEsc

\* the key events of the settings menu until it returns
SpecMenu == InitMenu /\ [][NextMenu]_vars

----------------------------------------------------------------------------
\* Properties of check_input, next_radical and is_game_over.

\* an input with nothing but whitespace in it
Blank(s) == \A i \in 1..Len(s) : s[i] = " "

\* the text of the radical at index i
TextAt(i) == radicals[i + 1].text

\* C1: after any sequence of check_input and next_radical calls,
\* is_game_over() is true exactly when every value of remaining_practice is 0.
C1_GameOverIffAllZero ==
    is_game_over(Self) <=>
        \A t \in DOMAIN remaining_practice : remaining_practice[t] = 0

\* a session practised to its end: every counter is 0 after some answers
C1_Witness ==
    /\ radicals # <<>>
    /\ total_practice > 0
    /\ is_game_over(Self)
    /\ \A t \in DOMAIN remaining_practice : remaining_practice[t] = 0

\* C2: check_input on an empty or whitespace-only input returns false and
\* leaves correct_count, wrong_count, total_practice, recent_radicals,
\* remaining_practice and current_radical as they were.
C2_BlankInputCountsNothing ==
    [][(last_op' = "check_input" /\ Blank(input')) =>
         /\ ret' = FALSE
         /\ UNCHANGED <<correct_count, wrong_count, total_practice,
                        recent_radicals, remaining_practice, current_radical>>
      ]_vars

\* a whitespace-only input was evaluated in the middle of a session
C2_Witness ==
    /\ last_op = "check_input"
    /\ input = <<" ">>
    /\ ret = FALSE
    /\ total_practice > 0
    /\ recent_radicals # <<>>

\* C3: check_input on an input that is empty after the trim changes no field
\* of the GameState, last_error and last_big_code included.
C3_BlankInputChangesNothing ==
    [][(last_op' = "check_input" /\ Blank(input')) => UNCHANGED state_vars]_vars

\* C4: a wrong answer adds one to wrong_count and the penalty to the current
\* radical's remaining_practice, and leaves every other radical's
\* remaining_practice and correct_count as they were.
C4_WrongAnswerAddsPenalty ==
    [][(/\ last_op' = "check_input"
        /\ ~Blank(input')
        /\ ret' = FALSE
        /\ radicals # <<>>) =>
         /\ wrong_count' = wrong_count + 1
         /\ correct_count' = correct_count
         /\ remaining_practice'[TextAt(current_radical)] =
                remaining_practice[TextAt(current_radical)] + config.penalty
         /\ \A i \in 0..(Len(radicals) - 1) :
                i # current_radical =>
                    remaining_practice'[TextAt(i)] = remaining_practice[TextAt(i)]
      ]_vars

\* C5: a correct answer adds one to correct_count and takes one from the
\* current radical's remaining_practice, a counter at 0 staying at 0, and
\* leaves every other radical's counter and wrong_count as they were.
C5_CorrectAnswerTakesOne ==
    [][(/\ last_op' = "check_input"
        /\ ~Blank(input')
        /\ ret' = TRUE) =>
         /\ correct_count' = correct_count + 1
         /\ wrong_count' = wrong_count
         /\ remaining_practice'[TextAt(current_radical)] =
                IF remaining_practice[TextAt(current_radical)] = 0 THEN 0
                ELSE remaining_practice[TextAt(current_radical)] - 1
         /\ \A i \in 0..(Len(radicals) - 1) :
                i # current_radical =>
                    remaining_practice'[TextAt(i)] = remaining_practice[TextAt(i)]
      ]_vars

\* C6: the radical next_radical makes current has remaining_practice > 0, in
\* every order and for every interval: one whose counter is 0 is never chosen.
C6_SelectedNeedsPractice ==
    (last_op = "next_radical" /\ ret = TRUE) =>
        /\ current_radical < Len(radicals)
        /\ remaining_practice[TextAt(current_radical)] > 0

\* next_radical chose a radical while another one's counter was already 0
C6_Witness ==
    /\ last_op = "next_radical"
    /\ ret = TRUE
    /\ config.min_practice_count = 2
    /\ \E i \in 0..(Len(radicals) - 1) :
        /\ remaining_practice[TextAt(i)] = 0
        /\ TextAt(i) \in {recent_radicals[p] : p \in 1..Len(recent_radicals)}
    /\ remaining_practice[TextAt(current_radical)] > 0

\* C7: recent_radicals never holds more than 6 entries.
C7_RecentAtMostSix == Len(recent_radicals) <= 6

\* the history is full and another push has just been made by check_input
C7_Witness ==
    /\ Len(recent_radicals) = 6
    /\ last_op = "check_input"
    /\ ~Blank(input)
    /\ total_practice = MaxPractice

\* C9: next_radical returns false exactly when no radical has
\* remaining_practice > 0.
C9_FalseIffNothingLeft ==
    last_op = "next_radical" =>
        (ret = FALSE <=>
            \A i \in 0..(Len(radicals) - 1) : remaining_practice[TextAt(i)] = 0)

\* next_radical returned true with a full history whose newest entry was the
\* radical it chose: the recency condition had to be dropped
C9_Witness ==
    /\ last_op = "next_radical"
    /\ ret = TRUE
    /\ Len(recent_radicals) = 6
    /\ recent_radicals[2] = recent_radicals[1]
    /\ Cardinality(DOMAIN remaining_practice) > 1

\* C10: a next_radical that returns false changes no field of the GameState.
C10_FalseChangesNothing ==
    [][(last_op' = "next_radical" /\ ret' = FALSE) => UNCHANGED state_vars]_vars

\* next_radical returned false on a catalog practised to its end
C10_Witness ==
    /\ last_op = "next_radical"
    /\ ret = FALSE
    /\ radicals # <<>>
    /\ total_practice > 0
    /\ current_radical > 0

----------------------------------------------------------------------------
\* Properties of the session loop.

\* no two radicals of the catalog share a text
DistinctTexts ==
    \A i, j \in 1..Len(radicals) : i # j => radicals[i].text # radicals[j].text

\* C8: with distinct texts and every answer so far correct, the session is
\* complete exactly when N * min_practice_count answers have been evaluated,
\* and no answer is evaluated after that.
C8_CompleteAfterAllCounts ==
    (DistinctTexts /\ wrong_count = 0) =>
        /\ total_practice <= Len(radicals) * config.min_practice_count
        /\ is_game_over(Self) <=>
               total_practice = Len(radicals) * config.min_practice_count
        /\ pc = "complete" <=>
               (radicals # <<>> /\
                total_practice = Len(radicals) * config.min_practice_count)

\* a session of several radicals, each to be practised more than once, ended
\* by its last correct answer
C8_Witness ==
    /\ DistinctTexts
    /\ wrong_count = 0
    /\ Len(radicals) > 1
    /\ config.min_practice_count > 1
    /\ total_practice = Len(radicals) * config.min_practice_count
    /\ pc = "complete"

----------------------------------------------------------------------------
\* Progress and counters.

\* C11: progress() is (completed, total) with completed = correct_count +
\* wrong_count and total = completed + the sum of the remaining_practice
\* values; so completed <= total, and the two are equal exactly when the
\* session is complete.
C11_ProgressIsCompletedOfTotal ==
    LET completed == progress(Self)[1]
        total == progress(Self)[2]
    IN  /\ completed = correct_count + wrong_count
        /\ total = completed
                     + SumOver(remaining_practice, DOMAIN remaining_practice)
        /\ completed <= total
        /\ completed = total <=> is_game_over(Self)

\* answers of both kinds were given and practice is still left
C11_Witness ==
    /\ correct_count > 0
    /\ wrong_count > 0
    /\ progress(Self)[1] = 2
    /\ progress(Self)[2] > 2
    /\ ~is_game_over(Self)

\* C12: correct_count, wrong_count and total_practice never decrease, whatever
\* step is taken.
C12_CountersNeverDecrease ==
    [][/\ correct_count' >= correct_count
       /\ wrong_count' >= wrong_count
       /\ total_practice' >= total_practice]_vars

\* a radical was selected after a correct and a wrong answer
C12_Witness ==
    /\ last_op = "next_radical"
    /\ correct_count > 0
    /\ wrong_count > 0
    /\ total_practice = correct_count + wrong_count

----------------------------------------------------------------------------
\* The session loop and the selection of the next radical.

\* C13 as stated: in the session loop next_radical runs after every recorded
\* attempt, whether the answer was correct or wrong.
C13_AdvanceAfterEveryAttempt ==
    [][total_practice' # total_practice => last_op' = "next_radical"]_vars

\* C13: in the session loop next_radical runs after a recorded attempt exactly
\* when the answer was correct; a wrong answer leaves the loop on the same
\* radical.
C13_AdvanceAfterCorrectOnly ==
    [][total_practice' # total_practice =>
           /\ last_op' = "next_radical" <=> correct_count' # correct_count
           /\ wrong_count' # wrong_count =>
                  /\ last_op' = "check_input"
                  /\ current_radical' = current_radical]_vars

\* a wrong answer was just recorded in a session that has also seen a correct
\* one
C13_Witness ==
    /\ pc = "await"
    /\ last_op = "check_input"
    /\ ~Blank(input)
    /\ ~ret
    /\ wrong_count > 0
    /\ correct_count > 0

\* the step is a next_radical call that follows an evaluated answer to the
\* current radical and selects that radical again
SelectsAgain ==
    /\ Answered
    /\ last_op' = "next_radical"
    /\ ret'
    /\ current_radical' = current_radical

\* the radical at index i has another text than the current one and still
\* needs practice
OtherNeedsPractice(i) ==
    /\ TextAt(i) # TextAt(current_radical)
    /\ remaining_practice[TextAt(i)] > 0

\* text is among the first k entries of recent_radicals
InWindow(text, k) ==
    \E p \in 1..k : p <= Len(recent_radicals) /\ recent_radicals[p] = text

\* C14 as stated: next_radical right after an answer to radical R selects R
\* again only if no radical of another text has remaining_practice > 0.
C14_RepeatOnlyWhenNothingElseLeft ==
    [][SelectsAgain =>
           \A i \in 0..(Len(radicals) - 1) : ~OtherNeedsPractice(i)]_vars

\* C14: next_radical right after an answer to radical R selects R again only
\* if every radical of another text with remaining_practice > 0 has its text
\* among the first k entries of recent_radicals, k the interval drawn.
C14_RepeatOnlyWhenOthersInWindow ==
    [][SelectsAgain =>
           \A i \in 0..(Len(radicals) - 1) :
               OtherNeedsPractice(i) =>
                   InWindow(TextAt(i), drawn'.random_interval)]_vars

\* the radical just answered was selected again while a radical of another
\* text still needs practice
C14_Witness ==
    /\ last_op = "next_radical"
    /\ ret
    /\ drawn.answered
    /\ drawn.from = current_radical
    /\ \E i \in 0..(Len(radicals) - 1) : OtherNeedsPractice(i)

\* the radical at index i has remaining_practice > 0 and a text that is not
\* among the first k entries of recent_radicals
Eligible(i, k) ==
    /\ remaining_practice[TextAt(i)] > 0
    /\ ~InWindow(TextAt(i), k)

\* C15: whatever interval k of 3..6 is drawn, when some radical has
\* remaining_practice > 0 and a text outside the first k entries of
\* recent_radicals, next_radical selects the first such radical of the
\* candidate list, and the text selected is not among the 3 newest entries of
\* recent_radicals as they were before the call.
C15_SelectsFirstOutsideWindow ==
    [][(last_op' = "next_radical" /\ drawn'.random_interval \in 3..6) =>
           LET k == drawn'.random_interval
               candidates == drawn'.candidates
               passing == {p \in 1..Len(candidates) : Eligible(candidates[p], k)}
           IN  passing # {} =>
                   /\ ret'
                   /\ \E p \in passing :
                          /\ \A q \in passing : p <= q
                          /\ current_radical' = candidates[p]
                   /\ ~InWindow(TextAt(current_radical'), 3)]_vars

\* with the interval 3, a radical last seen more than 3 entries ago was
\* selected, and it was not the first of the candidate list
C15_Witness ==
    /\ last_op = "next_radical"
    /\ ret
    /\ drawn.random_interval = 3
    /\ Len(drawn.candidates) > 1
    /\ drawn.candidates[1] # current_radical
    /\ Len(recent_radicals) > 4
    /\ \A p \in 2..4 : recent_radicals[p] # recent_radicals[1]
    /\ recent_radicals[5] = recent_radicals[1]

\* C16: next_radical always selects the first surviving candidate in the
\* order of the candidate list built for the call, also on the relaxed path,
\* where every candidate with remaining_practice > 0 survives; in Random
\* order that list is the shuffle of the call.  (Stated for catalogs of
\* distinct texts.)
C16_SelectsFirstSurvivorOfList ==
    [][(/\ DistinctTexts
        /\ last_op' = "next_radical"
        /\ ret'
        /\ drawn'.random_interval \in 3..6) =>
           LET k == drawn'.random_interval
               candidates == drawn'.candidates
               passing == {p \in 1..Len(candidates) : Eligible(candidates[p], k)}
               needing == {p \in 1..Len(candidates) :
                              remaining_practice[TextAt(candidates[p])] > 0}
               surviving == IF passing # {} THEN passing ELSE needing
           IN  \E p \in surviving :
                   /\ \A q \in surviving : p <= q
                   /\ current_radical' = candidates[p]]_vars

----------------------------------------------------------------------------
\* What one check_input and one next_radical call write.

\* recent_radicals after the step is text, then recent_radicals as it was,
\* cut to its 6 newest entries
PushedToFront(text) ==
    /\ Len(recent_radicals') =
           IF Len(recent_radicals) < 6 THEN Len(recent_radicals) + 1 ELSE 6
    /\ recent_radicals'[1] = text
    /\ \A p \in 2..Len(recent_radicals') :
           recent_radicals'[p] = recent_radicals[p - 1]

\* C17: a check_input of a non-empty input, the current index naming a
\* radical, sets last_big_code to that radical's big_code, puts its text at
\* the front of recent_radicals, adds 1 to total_practice and 1 to exactly one
\* of correct_count and wrong_count, and leaves current_radical as it was.
C17_EvaluateRecordsOneAttempt ==
    [][(/\ last_op' = "check_input"
        /\ ~Blank(input')
        /\ current_radical >= 0
        /\ current_radical < Len(radicals)) =>
           /\ last_big_code' = <<radicals[current_radical + 1].big_code>>
           /\ PushedToFront(TextAt(current_radical))
           /\ total_practice' = total_practice + 1
           /\ \/ correct_count' = correct_count + 1 /\ wrong_count' = wrong_count
              \/ correct_count' = correct_count /\ wrong_count' = wrong_count + 1
           /\ current_radical' = current_radical]_vars

\* an answer to the second radical of a catalog was just evaluated, the
\* history being full
C17_Witness ==
    /\ last_op = "check_input"
    /\ ~Blank(input)
    /\ current_radical = 1
    /\ Len(radicals) = 2
    /\ total_practice > 1
    /\ Len(recent_radicals) = 6
    /\ recent_radicals[1] = TextAt(1)
    /\ last_big_code = <<radicals[2].big_code>>

\* C18: when next_radical returns true, current_radical names the radical
\* selected, that radical's text is the newest entry of recent_radicals, the
\* older entries are the history as it was, shifted by one and without its
\* oldest entry when it had 6, and the radical selected has
\* remaining_practice > 0.
C18_TrueSelectsAndRecords ==
    [][(last_op' = "next_radical" /\ ret') =>
           /\ current_radical' >= 0
           /\ current_radical' < Len(radicals')
           /\ PushedToFront(radicals'[current_radical' + 1].text)
           /\ remaining_practice'[radicals'[current_radical' + 1].text] > 0]_vars

\* the second radical of a catalog was just selected, the history being
\* full and its second entry another text
C18_Witness ==
    /\ last_op = "next_radical"
    /\ ret
    /\ current_radical = 1
    /\ Len(recent_radicals) = 6
    /\ recent_radicals[1] = TextAt(1)
    /\ recent_radicals[2] # TextAt(1)
    /\ remaining_practice[TextAt(1)] > 0

----------------------------------------------------------------------------
\* The judgement and the feedback of check_input.

\* the code an answer is compared with: big_code in BigCode mode, the full
\* code in DualCode mode
Target(radical) ==
    IF config.practice_mode = "BigCode" THEN radical.big_code ELSE radical.code

\* C19: check_input judges a non-empty trimmed input without regard to case,
\* against the current radical's big_code in BigCode mode and its full code in
\* DualCode mode: it returns true exactly when the lowercased input equals the
\* lowercased target.
C19_JudgedCaseInsensitively ==
    (last_op = "check_input" /\ ~Blank(input) /\ radicals # <<>>) =>
        (ret <=> to_lowercase(trim(input)) =
                     to_lowercase(Target(radicals[current_radical + 1])))

\* "AB" typed between spaces was judged correct for the code "ab" in DualCode
\* mode
C19_Witness ==
    /\ last_op = "check_input"
    /\ input = <<" ", "A", "B", " ">>
    /\ config.practice_mode = "DualCode"
    /\ radicals # <<>>
    /\ radicals[current_radical + 1].code = <<"a", "b">>
    /\ ret

\* where the radical at index j comes in the catalog sorted stably by
\* descending frequency, counted from 1: after every radical of a higher
\* frequency and every earlier radical of the same frequency
PlaceByFrequency(j) ==
    1 + Cardinality({i \in 0..(Len(radicals) - 1) :
            \/ radicals[i + 1].frequency > radicals[j + 1].frequency
            \/ /\ radicals[i + 1].frequency = radicals[j + 1].frequency
               /\ i < j})

\* C20: the rank in the feedback for a radical is the place, counted from 1,
\* of the first radical with its text in the whole catalog sorted stably by
\* descending frequency: it is in 1..N, it is 1 for a radical whose frequency
\* is above every other's, and no remaining_practice value enters it.
C20_RankIsPlaceByFrequency ==
    (last_error # <<>> /\ last_error[1].kind = "judged") =>
        LET rank == last_error[1].rank
            same == {j \in 0..(Len(radicals) - 1) :
                        TextAt(j) = last_error[1].text}
        IN  /\ same # {}
            /\ \E j \in same :
                   /\ rank = PlaceByFrequency(j)
                   /\ \A i \in same : PlaceByFrequency(j) <= PlaceByFrequency(i)
            /\ rank \in 1..Len(radicals)
            /\ \A j \in same :
                   (\A i \in 0..(Len(radicals) - 1) :
                        i # j => radicals[i + 1].frequency
                                     < radicals[j + 1].frequency)
                       => rank = 1

\* the feedback ranks a radical third of three: it shares its frequency with
\* an earlier radical, and a counter has reached 0
C20_Witness ==
    /\ last_error # <<>>
    /\ last_error[1].kind = "judged"
    /\ Len(radicals) = 3
    /\ last_error[1].rank = 3
    /\ \E i, j \in 0..2 :
           /\ i < j
           /\ TextAt(j) = last_error[1].text
           /\ radicals[i + 1].frequency = radicals[j + 1].frequency
    /\ \E t \in DOMAIN remaining_practice : remaining_practice[t] = 0

----------------------------------------------------------------------------
\* Defensive paths.

\* C21: with an empty catalog, check_input of a non-empty input returns false
\* with the fixed message of an empty catalog, and next_radical returns false;
\* neither changes a counter, recent_radicals, remaining_practice,
\* last_big_code or current_radical.
C21_EmptyCatalogChangesNothing ==
    [][radicals = <<>> =>
           /\ UNCHANGED <<radicals, current_radical, remaining_practice,
                          correct_count, wrong_count, total_practice,
                          recent_radicals, last_big_code>>
           /\ (last_op' = "check_input" /\ ~Blank(input')) =>
                  (~ret' /\ last_error' = <<NoRadicalMessage>>)
           /\ last_op' = "next_radical" => ~ret']_vars

\* with an empty catalog an answer was evaluated, then next_radical was called
C21_Witness ==
    /\ radicals = <<>>
    /\ last_op = "next_radical"
    /\ ~ret
    /\ last_error = <<NoRadicalMessage>>
    /\ total_practice = 0
    /\ remaining_practice = << >>

\* the step is a check_input of a non-empty input in a state whose catalog is
\* not empty and whose current_radical is past its end
EvaluatesOutOfRange ==
    /\ radicals # <<>>
    /\ current_radical >= Len(radicals)
    /\ last_op' = "check_input"
    /\ ~Blank(input')

\* C22: with a catalog that is not empty and a current_radical past its end,
\* check_input takes the last radical of the catalog as the current one all
\* the way: the answer is judged against it, and the counter, the history,
\* remaining_practice and total_practice are updated for it.
C22_OutOfRangeActsOnLastRadical ==
    [][EvaluatesOutOfRange =>
           LET radical == radicals[Len(radicals)]
               was == remaining_practice[radical.text]
           IN  /\ ret' <=> to_lowercase(trim(input')) =
                               to_lowercase(Target(radical))
               /\ total_practice' = total_practice + 1
               /\ PushedToFront(radical.text)
               /\ IF ret'
                  THEN /\ correct_count' = correct_count + 1
                       /\ wrong_count' = wrong_count
                       /\ remaining_practice'[radical.text] =
                              IF was > 0 THEN was - 1 ELSE 0
                  ELSE /\ correct_count' = correct_count
                       /\ wrong_count' = wrong_count + 1
                       /\ remaining_practice'[radical.text] =
                              was + config.penalty]_vars

----------------------------------------------------------------------------
\* The catalog of a new session.

\* the catalog main hands to GameState::new
Loaded == load_from_files(disk.counts_file, disk.code_file)

\* a and b hold the same elements, each as often
IsPermutation(a, b) ==
    /\ Len(a) = Len(b)
    /\ \E f \in [1..Len(a) -> 1..Len(a)] :
           /\ \A i, j \in 1..Len(a) : i # j => f[i] # f[j]
           /\ \A i \in 1..Len(a) : a[i] = b[f[i]]

\* a GameState was built in the order named
BuiltIn(order) == pc = "await" /\ last_op = "new" /\ config.order = order

\* C23: GameState::new in Alphabetical order yields a permutation of the
\* radicals it was given whose codes never decrease, compared
\* lexicographically.
C23_AlphabeticalIsSortedByCode ==
    BuiltIn("Alphabetical") =>
        /\ IsPermutation(radicals, Loaded)
        /\ \A i, j \in 1..Len(radicals) :
               i < j => ~StrLess(radicals[j].code, radicals[i].code)

\* three radicals were put in another order than the table's
C23_Witness ==
    /\ BuiltIn("Alphabetical")
    /\ Len(radicals) = 3
    /\ radicals # Loaded
    /\ StrLess(radicals[1].code, radicals[2].code)
    /\ StrLess(radicals[2].code, radicals[3].code)

\* C24: GameState::new in Frequency order yields a permutation of the
\* radicals it was given whose frequencies never increase.
C24_FrequencyIsSortedDescending ==
    BuiltIn("Frequency") =>
        /\ IsPermutation(radicals, Loaded)
        /\ \A i, j \in 1..Len(radicals) :
               i < j => radicals[i].frequency >= radicals[j].frequency

\* three radicals, two of them of the same frequency, were put in another
\* order than the table's
C24_Witness ==
    /\ BuiltIn("Frequency")
    /\ Len(radicals) = 3
    /\ radicals # Loaded
    /\ radicals[1].frequency > radicals[2].frequency
    /\ radicals[2].frequency = radicals[3].frequency

\* the first character of the code, lowercased, is not a key of
\* keyboard_order
OffKeyboard(code) ==
    \A p \in 1..Len(keyboard_order) : keyboard_order[p] # ToLowerChar(code[1])

\* the place of the first character of the code, lowercased, in
\* keyboard_order
KeyPlace(code) ==
    CHOOSE p \in 1..Len(keyboard_order) :
        keyboard_order[p] = ToLowerChar(code[1])

\* C25: GameState::new in Keyboard order yields a permutation of the radicals
\* it was given, sorted by the place of the lowercased first character of the
\* code in "asdfghjklqwertyuiopzxcvbnm"; radicals whose first character is not
\* in it come after all others, and radicals of the same place are in the
\* lexicographic order of their codes.
C25_KeyboardIsSortedByKey ==
    BuiltIn("Keyboard") =>
        /\ IsPermutation(radicals, Loaded)
        /\ \A i, j \in 1..Len(radicals) :
               i < j =>
                   LET a == radicals[i].code
                       b == radicals[j].code
                   IN  /\ OffKeyboard(a) => OffKeyboard(b)
                       /\ (~OffKeyboard(a) /\ ~OffKeyboard(b)) =>
                              KeyPlace(a) <= KeyPlace(b)
                       /\ (OffKeyboard(a) = OffKeyboard(b)
                           /\ (OffKeyboard(a) \/ KeyPlace(a) = KeyPlace(b))) =>
                              ~StrLess(b, a)

\* a code that starts off the keyboard was moved behind the others, and two
\* codes of the same key are in code order
C25_Witness ==
    /\ BuiltIn("Keyboard")
    /\ Len(radicals) = 3
    /\ radicals # Loaded
    /\ OffKeyboard(radicals[3].code)
    /\ ~OffKeyboard(radicals[2].code)
    /\ KeyPlace(radicals[1].code) = KeyPlace(radicals[2].code)
    /\ StrLess(radicals[1].code, radicals[2].code)

\* C26: the catalog the loader produces is unique by text: whatever the lines
\* of the code table, no two radicals of the catalog of a new session carry
\* the same text.
C26_LoadedTextsAreDistinct ==
    (pc = "await" /\ last_op = "new") => DistinctTexts

\* the texts of the catalog
CatalogTexts == {radicals[i].text : i \in 1..Len(radicals)}

\* C27: after GameState::new remaining_practice holds one entry for every
\* member of the catalog, each the configured minimum, and no check_input or
\* next_radical call adds or removes a key: there are as many entries as
\* radicals, and the keys are the texts of the catalog.
C27_OneEntryPerMember ==
    /\ Cardinality(DOMAIN remaining_practice) = Len(radicals)
    /\ DOMAIN remaining_practice = CatalogTexts
    /\ last_op = "new" =>
           \A t \in DOMAIN remaining_practice :
               remaining_practice[t] = config.min_practice_count

\* C28: no check_input or next_radical call changes the catalog (its order,
\* codes, texts and frequencies), and next_radical also leaves correct_count,
\* wrong_count, total_practice, remaining_practice and last_error as they
\* were.
C28_CallsKeepCatalogAndAdvanceKeepsScore ==
    [][/\ last_op' \in {"check_input", "next_radical"} =>
            radicals' = radicals
       /\ last_op' = "next_radical" =>
            UNCHANGED <<correct_count, wrong_count, total_practice,
                        remaining_practice, last_error>>]_vars

\* next_radical has selected a radical after a wrong answer whose feedback
\* is still there
C28_Witness ==
    /\ last_op = "next_radical"
    /\ ret = TRUE
    /\ radicals # <<>>
    /\ last_error # <<>>
    /\ wrong_count > 0
    /\ correct_count > 0

----------------------------------------------------------------------------
\* Properties of the saved game.

\* C29: after save_to_file, load_from_file returns the saved state: the same
\* radicals, current_radical, remaining_practice, correct_count, wrong_count,
\* total_practice and recent_radicals and the same config, with last_error and
\* last_big_code None; this holds for what the written save.json loads to and
\* for the state a caller holds when it loads right after saving.
C29_SavedStateComesBack ==
    [][/\ last_op' = "save_to_file" =>
            load_from_file(disk'.save_json) =
                << [state |-> [Self EXCEPT !.last_error = <<>>,
                                           !.last_big_code = <<>>],
                    config |-> config] >>
       /\ (last_op = "save_to_file" /\ last_op' = "load_from_file") =>
            /\ ret' = TRUE
            /\ radicals' = radicals
            /\ current_radical' = current_radical
            /\ remaining_practice' = remaining_practice
            /\ correct_count' = correct_count
            /\ wrong_count' = wrong_count
            /\ total_practice' = total_practice
            /\ recent_radicals' = recent_radicals
            /\ config' = config
            /\ last_error' = <<>>
            /\ last_big_code' = <<>>]_vars

\* a session under way, with two texts to practise, a recent history and a
\* wrong answer, has come back from the save.json that save_to_file wrote
C29_Witness ==
    /\ last_op = "load_from_file"
    /\ ret = TRUE
    /\ disk.save_json # <<>>
    /\ disk.save_json[1] \notin SaveFiles
    /\ Cardinality(DOMAIN remaining_practice) > 1
    /\ recent_radicals # <<>>
    /\ current_radical > 0
    /\ wrong_count > 0
    /\ disk.save_json[1].wrong_count = wrong_count

----------------------------------------------------------------------------
\* Properties of the loader.

\* the lines of a table that have two fields or more
FullLines(table) == {k \in 1..Len(table) : Len(table[k]) >= 2}

\* the lines of the frequency table that give a value for text
LinesFor(text) ==
    {k \in FullLines(disk.counts_file) : disk.counts_file[k][1] = text}

\* field writes a non-negative integer
IsNumber(field) ==
    LET digits == IF field # <<>> /\ field[1] = "+" THEN Tail(field) ELSE field
    IN  digits # <<>> /\ \A i \in 1..Len(digits) : DigitValue(digits[i]) >= 0

\* the frequency the table gives to text: the number in the last line for it,
\* 0 when that is no number or when there is no line
FrequencyWritten(text) ==
    IF LinesFor(text) = {} THEN 0
    ELSE LET last == CHOOSE k \in LinesFor(text) : \A j \in LinesFor(text) : j <= k
             field == disk.counts_file[last][2]
         IN  IF IsNumber(field)
             THEN DecimalValue(IF field[1] = "+" THEN Tail(field) ELSE field)
             ELSE 0

\* C30: in the catalog of a new session every radical has the frequency of
\* the last line of the frequency table that has its text, 0 when that line's
\* value is not a non-negative integer and 0 when no line has its text; the
\* lines of fewer than two fields give no radical and no frequency, and the
\* catalog is loaded all the same.
C30_FrequencyIsLastWritten ==
    (pc = "await" /\ last_op = "new") =>
        /\ Len(radicals) = Cardinality(FullLines(disk.code_file))
        /\ \A i \in 1..Len(radicals) :
               radicals[i].frequency = FrequencyWritten(radicals[i].text)

\* a session on tables with short lines: one text has two lines of different
\* values, one a value that is no number, one no line at all
C30_Witness ==
    /\ pc = "await"
    /\ last_op = "new"
    /\ \E k \in 1..Len(disk.code_file) : Len(disk.code_file[k]) < 2
    /\ \E k \in 1..Len(disk.counts_file) : Len(disk.counts_file[k]) < 2
    /\ \E i \in 1..Len(radicals) :
           /\ Cardinality(LinesFor(radicals[i].text)) > 1
           /\ radicals[i].frequency > 0
    /\ \E i \in 1..Len(radicals) :
           /\ LinesFor(radicals[i].text) # {}
           /\ \A k \in LinesFor(radicals[i].text) :
                  ~IsNumber(disk.counts_file[k][2])
    /\ \E i \in 1..Len(radicals) : LinesFor(radicals[i].text) = {}

----------------------------------------------------------------------------
\* Properties of the settings menu.

\* C31: whatever keys the settings menu has read, its config has penalty in
\* 1..10 and min_practice_count in 1..5, and so has the config it returns.
C31_CountsStayInRange ==
    pc \in {"menu", "menu_input", "menu_done"} =>
        /\ config.penalty \in 1..10
        /\ config.min_practice_count \in 1..5

\* the menu has returned, not cancelled, a config with both counts at their
\* upper bounds
C31_Witness ==
    /\ pc = "menu_done"
    /\ ~menu.cancelled
    /\ config.penalty = 10
    /\ config.min_practice_count = 5

----------------------------------------------------------------------------
\* Properties of a whole session.

\* C32: in a session on a non-empty catalog the loop has ended with the
\* completion message only when every remaining_practice value is 0, and it
\* is never waiting for a key when they all are: the correct answer that
\* takes the last positive value to 0 ends it.
C32_CompleteExactlyWhenOver ==
    radicals # <<>> =>
        /\ pc = "complete" =>
               /\ is_game_over(Self)
               /\ last_op = "next_radical"
               /\ ret = FALSE
        /\ pc = "await" => ~is_game_over(Self)

\* a session of several radicals with a wrong answer in it has ended with
\* the completion message
C32_Witness ==
    /\ pc = "complete"
    /\ Len(radicals) > 1
    /\ wrong_count > 0
    /\ correct_count > 1

\* radicals[current_radical] has a positive remaining_practice
CurrentNeedsPractice ==
    /\ current_radical < Len(radicals)
    /\ NeedsPractice(Self, TextAt(current_radical))

\* C33: in a session on a non-empty catalog, whenever the loop waits for a
\* key the current radical has a positive remaining_practice, and every
\* correct answer takes exactly 1 from the value of the radical it was given
\* on (saturating_sub never meets a 0).
C33_CurrentNeedsPracticeWhileWaiting ==
    /\ []((radicals # <<>> /\ pc = "await") => CurrentNeedsPractice)
    /\ [][(radicals # <<>> /\ correct_count' = correct_count + 1) =>
              remaining_practice'[TextAt(current_radical)] =
                  remaining_practice[TextAt(current_radical)] - 1]_vars

\* the loop waits for a key after a correct answer that took the value of
\* one radical to 0 and left another positive
C33_Witness ==
    /\ pc = "await"
    /\ last_op = "next_radical"
    /\ correct_count > 0
    /\ wrong_count > 0
    /\ \E t \in DOMAIN remaining_practice : remaining_practice[t] = 0
    /\ CurrentNeedsPractice

\* C34: in a session on a catalog of distinct texts, the remaining_practice
\* of every text is min_practice_count + penalty * (the wrong answers given
\* on it) - (the correct answers given on it); so the values sum to
\* N * min_practice_count + penalty * wrong_count - correct_count, and when
\* the session is complete every text has had at least min_practice_count
\* correct answers.
C34_RemainingIsMinPlusPenaltiesMinusCorrect ==
    DistinctTexts =>
        /\ \A t \in DOMAIN remaining_practice :
               remaining_practice[t] =
                   config.min_practice_count
                       + config.penalty * Tally(t).wrong - Tally(t).correct
        /\ SumOver(remaining_practice, DOMAIN remaining_practice) =
               Len(radicals) * config.min_practice_count
                   + config.penalty * wrong_count - correct_count
        /\ pc = "complete" =>
               \A t \in DOMAIN remaining_practice :
                   Tally(t).correct >= config.min_practice_count

\* a complete session of several radicals in which a wrong answer on one
\* text was made up for by more correct answers than the minimum
C34_Witness ==
    /\ pc = "complete"
    /\ DistinctTexts
    /\ Len(radicals) > 1
    /\ \E t \in DOMAIN remaining_practice :
           /\ Tally(t).wrong > 0
           /\ Tally(t).correct > config.min_practice_count

\* C35: in every state reached from GameState::new by check_input and
\* next_radical calls, total_practice = correct_count + wrong_count.
C35_TotalIsCorrectPlusWrong ==
    total_practice = correct_count + wrong_count

\* answers of both kinds have been counted, on a catalog of several radicals
C35_Witness ==
    /\ Len(radicals) > 1
    /\ correct_count > 0
    /\ wrong_count > 0
    /\ total_practice = MaxPractice

\* C36: on a non-empty catalog, a correct answer on a radical whose
\* remaining_practice is positive leaves the total of progress() as it was
\* and adds 1 to completed; an answer that is not correct adds penalty + 1
\* to the total and 1 to completed; next_radical changes neither.
C36_TotalMovesOnWrongAnswersOnly ==
    [][LET completed == progress(Self)[1]
           total == progress(Self)[2]
           completed_after == progress(Self)'[1]
           total_after == progress(Self)'[2]
           answered == last_op' = "check_input" /\ ~Blank(input')
                           /\ radicals # <<>>
       IN  /\ (answered /\ ret' = TRUE
                   /\ remaining_practice[TextAt(current_radical)] > 0) =>
                  (total_after = total /\ completed_after = completed + 1)
           /\ (answered /\ ret' = FALSE) =>
                  /\ total_after = total + config.penalty + 1
                  /\ completed_after = completed + 1
           /\ last_op' = "next_radical" =>
                  (total_after = total /\ completed_after = completed)
      ]_vars

\* a wrong answer with a penalty above 1 came after a correct one: the total
\* is above what it was at the start
C36_Witness ==
    /\ last_op = "check_input"
    /\ ret = FALSE
    /\ ~Blank(input)
    /\ radicals # <<>>
    /\ config.penalty > 1
    /\ correct_count > 0
    /\ progress(Self)[2] >
           Cardinality(DOMAIN remaining_practice) * config.min_practice_count
               + config.penalty

\* C37: a session on a non-empty catalog whose learner goes on answering,
\* with finitely many wrong answers, comes to its end: every
\* remaining_practice value reaches 0 and the loop shows the completion
\* message.
C37_SessionCompletes ==
    (radicals # <<>>) ~> (pc = "complete" /\ is_game_over(Self))

\* a session of three radicals has ended after MaxWrong wrong answers
C37_Witness ==
    /\ pc = "complete"
    /\ Len(radicals) > 2
    /\ wrong_count = MaxWrong

----------------------------------------------------------------------------
\* The candidate order of next_radical.

\* C38: in Frequency order the candidate list that next_radical builds is
\* the list of indices 0..N-1 in catalog order, and the call leaves the
\* state, and returns the value, of a call that scans the catalog in index
\* order with the same interval.
C38_FrequencyOrderIsCatalogOrder ==
    [][(last_op' = "next_radical" /\ config.order = "Frequency") =>
         LET scanned == next_radical(Self, Indices(Self), drawn'.random_interval)
         IN  /\ drawn'.candidates = Indices(Self)
             /\ Self' = scanned.self
             /\ ret' = scanned.ret
      ]_vars

\* next_radical has selected a radical, in Frequency order, from a catalog
\* of several radicals, and the list it built was not empty
C38_Witness ==
    /\ last_op = "next_radical"
    /\ ret = TRUE
    /\ config.order = "Frequency"
    /\ Len(radicals) > 1
    /\ Len(drawn.candidates) = Len(radicals)
    /\ \E i, j \in 1..Len(radicals) : radicals[i].frequency # radicals[j].frequency
    /\ current_radical > 0

====
